---- MODULE Spec2Model ----
(***************************************************************************)
(* News harvesters of the repository: the browser-driven harvest loops of  *)
(* interfax, vedomosti_business, vedomosti_economics and finam, and the    *)
(* single-request pagination loop of akm.                                  *)
(*                                                                         *)
(* The browser session and the HTTP server are the environment: what a     *)
(* find_element call returns, what the extractor yields on the current     *)
(* snapshot, how many <time> elements are rendered, are chosen             *)
(* nondeterministically in every step.  The accumulators, counters and     *)
(* control flow are those of the code.                                     *)
(*                                                                         *)
(* Scaled quantities: MAX_ITEMS is 10000 in the code, the stall floor 50,  *)
(* max_clicks 500, max_rounds 60, max_pages 50 and the finam target 3000;  *)
(* the model keeps their order relations (floor < target, threshold 3 <    *)
(* round cap) with small values.                                           *)
(***************************************************************************)
EXTENDS Integers, Sequences, FiniteSets, TLC

\* ------------------------------------------------------------------ bounds
\* number of distinct articles the sites can render
NItems == 5
\* length of the longest extraction result of one snapshot
MaxChunk == 2
\* max_clicks of scroll_and_click_load_more (500 in the code)
MaxClicks == 6
\* MAX_ITEMS, also passed as target_count (10000 in the code)
MAX_ITEMS == 4
\* the floor of the stall heuristic (50 in the code)
StallFloor == 3
\* largest number of rendered <time> elements
MaxTimeCount == 2
\* elements a brute-force scan (find_elements) walks through
NScan == 1
\* akm: max_pages (50 in the code) and the number of URLs of the site
MaxPages == 4
NUrls == 2
\* finam: max_rounds (60 in the code), target_count (3000 in the code), page
\* heights, and the number of distinct articles the page can link to
MaxRounds == 6
FinamTarget == 2
NHeights == 2
NFinamItems == 3
\* finam: the most article links a snapshot holds (above the target)
MaxLinks == 3
\* distinct publication dates of the articles
NDates == 2
\* vedomosti: the most cards a page passed to the extractor holds
MaxCards == 2
\* interfax, akm: the most blocks a page passed to the extractor holds
MaxBlocks == 2
\* finam: the most links a page passed to the extractor holds
MaxAnchors == 2

\* ------------------------------------------------------- program constants
\* consecutive rounds without trigger that end the loop
NoTriggerLimit == 3
\* finam: rounds of unchanged page height that end the loop
SameHeightLimit == 5

\* ------------------------------------------------------------------- items
\* A NewsItem is {"date": ..., "title": ...}; articles differ in date or title.
ItemOf(i) == [date |-> (i - 1) % NDates, title |-> (i - 1) \div NDates]

Items == {ItemOf(i) : i \in 1..NItems}

\* key = (item["date"], item["title"])
Key(item) == <<item.date, item.title>>

Keys(list) == {Key(list[k]) : k \in 1..Len(list)}

\* what extract_news_from_page may return on a snapshot: any sequence of
\* items in document order, repetitions included
Chunks == UNION {[1..n -> Items] : n \in 0..MaxChunk}

\* finam: the article links of a snapshot, one item per link, in document order
FinamSnaps == UNION {[1..n -> {ItemOf(i) : i \in 1..NFinamItems}] : n \in 0..MaxLinks}

TimeCounts == 0..MaxTimeCount

HarvestSites == {"interfax", "vedomosti_business", "vedomosti_economics"}

VedomostiSites == {"vedomosti_business", "vedomosti_economics"}

Sites == HarvestSites \cup {"akm", "finam"}

\* ------------------------------------------------------------------- merge
\* for item in chunk: if key not in seen: seen.add(key); collected.append(item); added += 1
RECURSIVE MergeFrom(_, _, _, _, _)
MergeFrom(col, sn, chunk, k, n) ==
    IF k > Len(chunk)
    THEN [collected |-> col, seen |-> sn, added |-> n]
    ELSE IF Key(chunk[k]) \notin sn
         THEN MergeFrom(Append(col, chunk[k]), sn \cup {Key(chunk[k])}, chunk, k + 1, n + 1)
         ELSE MergeFrom(col, sn, chunk, k + 1, n)

\* a merge that appends without consulting the seen-set
MergeNoSeenTest(col, sn, chunk) ==
    [collected |-> col \o chunk, seen |-> sn \cup Keys(chunk), added |-> Len(chunk)]

\* a merge that tests the seen-set but never records a key in it
RECURSIVE MergeForgetFrom(_, _, _, _, _)
MergeForgetFrom(col, sn, chunk, k, n) ==
    IF k > Len(chunk)
    THEN [collected |-> col, seen |-> sn, added |-> n]
    ELSE IF Key(chunk[k]) \notin sn
         THEN MergeForgetFrom(Append(col, chunk[k]), sn, chunk, k + 1, n + 1)
         ELSE MergeForgetFrom(col, sn, chunk, k + 1, n)

MergeForget(col, sn, chunk) == MergeForgetFrom(col, sn, chunk, 1, 0)

\* a merge that puts new items in front of the list
MergeFront(col, sn, chunk) ==
    LET m == MergeFrom(<<>>, sn, chunk, 1, 0)
    IN  [collected |-> m.collected \o col, seen |-> m.seen, added |-> m.added]

\* a merge that rebuilds the list from the current snapshot alone
MergeReplace(col, sn, chunk) ==
    LET m == MergeFrom(<<>>, {}, chunk, 1, 0)
    IN  [collected |-> m.collected, seen |-> m.seen, added |-> m.added]

Merge(col, sn, chunk) == MergeFrom(col, sn, chunk, 1, 0)

\* collected[:MAX_ITEMS] if len(collected) > MAX_ITEMS else collected
TruncateNone(list) == list

Truncate(list) == IF Len(list) > MAX_ITEMS THEN SubSeq(list, 1, MAX_ITEMS) ELSE list

\* ---------------------------------------------------------- locator cascade
\* What a locator strategy meets on the page:
\*   absent   find_element raises NoSuchElementException
\*   mismatch an element is found, its text or class fails the strategy's test
\*   hidden   found, is_displayed() is False
\*   disabled found and displayed, is_enabled() is False
\*   ready    found, displayed and enabled
\*   stale    a call on the driver or the element raises another exception
ElemStatus == {"absent", "mismatch", "hidden", "disabled", "ready", "stale"}

\* A strategy: guarded (skipped once load_more_clicked), text_test (tests the
\* element's text or class), need_enabled (tests is_enabled), catch_all (wrapped
\* in try/except Exception).
Strategy(by, guarded, text_test, need_enabled, catch_all) ==
    [by |-> by, guarded |-> guarded, text_test |-> text_test,
     need_enabled |-> need_enabled, catch_all |-> catch_all]

Repeat(st, n) == [k \in 1..n |-> st]

\* the state of one round's cascade: load_more_clicked, the activations
\* (scrollIntoView + click) made, and whether an exception left the loop
NoCascade == [clicked |-> FALSE, activated |-> <<>>, raised |-> FALSE]

StatusesOf(st) == IF st.text_test THEN ElemStatus ELSE ElemStatus \ {"mismatch"}

Activate(st, r, s) ==
    [r EXCEPT !.clicked = TRUE,
              !.activated = Append(@, [by |-> st.by, enabled |-> (s = "ready")])]

Attempt(st, r, s) ==
    CASE s = "absent" -> r
      [] s = "mismatch" -> r
      [] s = "hidden" -> r
      [] s = "disabled" -> IF st.need_enabled THEN r ELSE Activate(st, r, s)
      [] s = "ready" -> Activate(st, r, s)
      [] s = "stale" -> IF st.catch_all THEN r ELSE [r EXCEPT !.raised = TRUE]

StepSet(st, r) ==
    IF r.raised \/ (st.guarded /\ r.clicked)
    THEN {r}
    ELSE {Attempt(st, r, s) : s \in StatusesOf(st)}

RECURSIVE RunCascade(_, _, _)
RunCascade(strats, k, R) ==
    IF k > Len(strats)
    THEN R
    ELSE RunCascade(strats, k + 1, UNION {StepSet(strats[k], r) : r \in R})

\* a cascade whose text strategy runs whether or not the class strategy clicked
InterfaxTextUnguarded ==
    << Strategy("css", FALSE, FALSE, TRUE, FALSE),
       Strategy("text", FALSE, TRUE, FALSE, FALSE) >>

\* interfax: div.timeline__more by class, then by text (class test, displayed only)
InterfaxStrategies ==
    << Strategy("css", FALSE, FALSE, TRUE, FALSE),
       Strategy("text", TRUE, TRUE, FALSE, FALSE) >>

InterfaxCascade == RunCascade(InterfaxStrategies, 1, {NoCascade})

\* vedomosti: button class, two link texts (the loop is entered whether or not
\* the class strategy clicked, and left after its first text once clicked),
\* partial link text, 8 XPath expressions, scan of all buttons and all links
VedomostiStrategies ==
    << Strategy("class", FALSE, FALSE, TRUE, FALSE),
       Strategy("link_text", FALSE, FALSE, TRUE, FALSE),
       Strategy("link_text", TRUE, FALSE, TRUE, FALSE),
       Strategy("partial", TRUE, TRUE, FALSE, FALSE) >>
    \o Repeat(Strategy("xpath", TRUE, FALSE, TRUE, FALSE), 8)
    \o Repeat(Strategy("scan_button", TRUE, TRUE, FALSE, TRUE), NScan)
    \o Repeat(Strategy("scan_link", TRUE, TRUE, FALSE, TRUE), NScan)

\* vedomosti_business only: one pass of the strategies tried after scrolling up
FallbackPass ==
    Repeat(Strategy("link_text", TRUE, FALSE, TRUE, FALSE), 4)
    \o << Strategy("partial", TRUE, TRUE, FALSE, FALSE) >>
    \o Repeat(Strategy("xpath", TRUE, FALSE, TRUE, FALSE), 12)
    \o Repeat(Strategy("scan_button", TRUE, TRUE, FALSE, TRUE), NScan)
    \o Repeat(Strategy("scan_link", TRUE, TRUE, FALSE, TRUE), NScan)

EconomicsCascade == RunCascade(VedomostiStrategies, 1, {NoCascade})

\* scroll_positions = [0.9, 0.8, 0.7, 0.6, 0.5]: one pass per position
FallbackAt90 == RunCascade(FallbackPass, 1, EconomicsCascade)

FallbackAt80 == RunCascade(FallbackPass, 1, FallbackAt90)

FallbackAt70 == RunCascade(FallbackPass, 1, FallbackAt80)

FallbackAt60 == RunCascade(FallbackPass, 1, FallbackAt70)

BusinessCascade == RunCascade(FallbackPass, 1, FallbackAt60)

\* finam: 4 link texts, 2 partial link texts, 12 XPath expressions (text must be
\* non-empty), scan of all links
FinamStrategies ==
    Repeat(Strategy("link_text", TRUE, FALSE, TRUE, FALSE), 4)
    \o Repeat(Strategy("partial", TRUE, TRUE, FALSE, FALSE), 2)
    \o Repeat(Strategy("xpath", TRUE, TRUE, TRUE, FALSE), 12)
    \o Repeat(Strategy("scan_link", TRUE, TRUE, TRUE, TRUE), NScan)

FinamCascade == RunCascade(FinamStrategies, 1, {NoCascade})

CascadeOf(s) ==
    CASE s = "interfax" -> InterfaxCascade
      [] s = "vedomosti_business" -> BusinessCascade
      [] s = "vedomosti_economics" -> EconomicsCascade
      [] s = "finam" -> FinamCascade

\* ------------------------------------------------------------------- state
VARIABLES
    site,               \* which program runs
    pc,                 \* position in the program
    round_num,          \* the loop variable of the harvest loop (0-based)
    collected,          \* the accumulator list (all_news in akm)
    seen,               \* the set of keys seen
    no_new_count,       \* interfax
    no_click_count,     \* vedomosti
    load_more_clicked,
    activated,          \* trigger activations of the current round's cascade
    time_count,         \* vedomosti: len(time_elements) of the round (finam: current_count)
    parses,             \* extractor runs of the current round
    added,              \* items the round's last merge admitted
    parsed,             \* len(chunk) of the round's last parse
    stop,               \* which exit the loop took
    unique,             \* the list handed to the file writer
    csv,                \* the output file
    quit_calls,         \* driver.quit() calls
    current_url,        \* akm: the page to fetch next, 0 for None
    page_num,           \* akm
    last_height,        \* finam
    new_height,         \* finam
    rendered,           \* finam: keys of the article links of any snapshot the loop read
    last_news_count,    \* finam
    same_height_count,  \* finam
    extracted,          \* keys the extractor has returned in any parsed round
    rounds_started,     \* rounds begun
    miss_run,           \* consecutive rounds, up to the current one, without activation
    all_clicked,        \* the trigger was activated in every round so far
    scen,               \* rounds of the A,B / B,C / nothing run matched so far, -1 if none
    ex_fn,              \* the pure function under call ("none" while a program runs)
    ex_in,              \* its argument
    ex_out,             \* its result
    ex_pc               \* "idle", "call" or "return"

loopVars == <<round_num, no_new_count, no_click_count, load_more_clicked, activated,
              time_count, parses, stop>>

accVars == <<collected, seen, extracted>>

outVars == <<unique, csv, quit_calls>>

akmVars == <<current_url, page_num>>

finamVars == <<last_height, new_height, last_news_count, same_height_count, rendered>>

ghostVars == <<rounds_started, miss_run, all_clicked, scen>>

parseVars == <<added, parsed>>

exVars == <<ex_fn, ex_in, ex_out, ex_pc>>

vars == <<site, pc, loopVars, parseVars, accVars, outVars, akmVars, finamVars, ghostVars, exVars>>

\* akm: the URLs the site serves; START_URL is the first
START_URL == 1

Urls == 1..NUrls

\* finam: values of document.body.scrollHeight
Heights == 1..NHeights

\* a file of the same name left by an earlier run
PriorFile == [written |-> FALSE, rows |-> <<>>]

Init ==
    /\ site \in Sites
    /\ pc = "start"
    /\ round_num = 0
    /\ collected = <<>>
    /\ seen = {}
    /\ no_new_count = 0
    /\ no_click_count = 0
    /\ load_more_clicked = FALSE
    /\ activated = <<>>
    /\ time_count = 0
    /\ parses = 0
    /\ added = 0
    /\ parsed = 0
    /\ stop = "none"
    /\ unique = <<>>
    /\ csv = PriorFile
    /\ quit_calls = 0
    /\ current_url = START_URL
    /\ page_num = 1
    /\ last_height = 1
    /\ new_height = 1
    /\ rendered = {}
    /\ last_news_count = 0
    /\ same_height_count = 0
    /\ extracted = {}
    /\ rounds_started = 0
    /\ miss_run = 0
    /\ all_clicked = TRUE
    /\ scen = 0
    /\ ex_fn = "none"
    /\ ex_in = <<>>
    /\ ex_out = <<>>
    /\ ex_pc = "idle"

\* --------------------------------------------------- the A,B / B,C scenario
\* Round 1 finds the trigger and parses [A,B], round 2 finds it and parses
\* [B,C], later rounds do not find it and parse nothing.  scen = n: the first
\* n rounds went that way (and so did the locate phase of the current one).
ScenChunk(rn) ==
    CASE rn = 0 -> <<ItemOf(1), ItemOf(2)>>
      [] rn = 1 -> <<ItemOf(2), ItemOf(3)>>
      [] OTHER -> <<>>

ScenLocate(sc, rn, clicked) == IF sc = rn /\ (clicked <=> rn < 2) THEN sc ELSE -1

ScenParse(sc, rn, chunk) == IF sc = rn /\ chunk = ScenChunk(rn) THEN rn + 1 ELSE -1

\* ------------------------------------------------------------ harvest loops
\* an exception that leaves main without the finally clause
PropagateNoQuit ==
    /\ pc' = "done"
    /\ stop' = "exception"
    /\ UNCHANGED <<unique, csv, quit_calls>>

\* An exception that is not caught inside the loop leaves
\* scroll_and_click_load_more and main's try block: nothing is saved, and the
\* finally clause calls driver.quit().
Propagate ==
    /\ pc' = "done"
    /\ stop' = "exception"
    /\ quit_calls' = quit_calls + 1
    /\ UNCHANGED <<unique, csv>>

\* driver.get(NEWS_URL) and the waits before the loop
Open ==
    /\ pc = "start"
    /\ site \in HarvestSites
    /\ \E ok \in BOOLEAN :
         IF ok
         THEN pc' = "locate" /\ UNCHANGED <<stop, outVars>>
         ELSE Propagate
    /\ UNCHANGED <<site, exVars, parseVars, akmVars, finamVars, round_num, no_new_count, no_click_count,
                   load_more_clicked, activated, time_count, parses, accVars, ghostVars>>

\* the scroll to the bottom and the locator cascade of one round
Locate ==
    /\ pc = "locate"
    /\ site \in HarvestSites
    /\ \E r \in CascadeOf(site) :
         /\ load_more_clicked' = r.clicked
         /\ activated' = r.activated
         /\ IF r.raised
            THEN Propagate
            ELSE pc' = "settle" /\ UNCHANGED <<stop, outVars>>
         /\ miss_run' = IF r.activated = <<>> THEN miss_run + 1 ELSE 0
         /\ all_clicked' = (all_clicked /\ r.activated # <<>>)
         /\ scen' = ScenLocate(scen, round_num, r.clicked)
    /\ rounds_started' = rounds_started + 1
    /\ UNCHANGED <<site, exVars, parseVars, akmVars, finamVars, round_num, no_new_count, no_click_count,
                   time_count, parses, accVars>>

\* interfax: else: no_new_count += 1
NoNewAfterLocate(count, clicked) == IF clicked THEN count ELSE count + 1

\* interfax: if added > 0: no_new_count = 0
NoNewAfterMerge(count, n) == IF n > 0 THEN 0 ELSE count

\* a counter that is not reset after a click
NoClickNoReset(count, clicked) == IF clicked THEN count ELSE count + 1

\* a counter that counts every round
NoClickEveryRound(count, clicked) == count + 1

\* vedomosti: no_click_count = 0 after a click, no_click_count += 1 otherwise
NoClickAfterLocate(count, clicked) == IF clicked THEN 0 ELSE count + 1

\* if no_new_count >= 3: break
LimitReachedLate(count) == count >= NoTriggerLimit + 1

LimitReached(count) == count >= NoTriggerLimit

\* a round that skips the parse step whenever no trigger was found
SettleInterfaxSkipParse ==
    /\ pc = "settle"
    /\ site = "interfax"
    /\ no_new_count' = NoNewAfterLocate(no_new_count, load_more_clicked)
    /\ IF ~load_more_clicked /\ LimitReached(no_new_count')
       THEN pc' = "returned" /\ stop' = "no_trigger"
       ELSE pc' = (IF load_more_clicked THEN "parse" ELSE "target") /\ stop' = stop
    /\ activated' = <<>>
    /\ UNCHANGED <<site, exVars, parseVars, akmVars, finamVars, round_num, no_click_count, load_more_clicked, time_count, parses,
                   accVars, outVars, ghostVars>>

\* interfax: the wait after a click, or the no-trigger count and its break
SettleInterfax ==
    /\ pc = "settle"
    /\ site = "interfax"
    /\ no_new_count' = NoNewAfterLocate(no_new_count, load_more_clicked)
    /\ IF ~load_more_clicked /\ LimitReached(no_new_count')
       THEN pc' = "returned" /\ stop' = "no_trigger"
       ELSE pc' = "parse" /\ stop' = stop
    /\ activated' = <<>>
    /\ UNCHANGED <<site, exVars, parseVars, akmVars, finamVars, round_num, no_click_count, load_more_clicked, time_count, parses,
                   accVars, outVars, ghostVars>>

\* vedomosti: the height check and the scroll oscillations after a click (a
\* script call that raises leaves the loop), or the no-trigger count and its break
SettleVedomosti ==
    /\ pc = "settle"
    /\ site \in VedomostiSites
    /\ \E ok \in BOOLEAN :
         IF load_more_clicked /\ ~ok
         THEN /\ Propagate
              /\ UNCHANGED no_click_count
         ELSE /\ no_click_count' = NoClickAfterLocate(no_click_count, load_more_clicked)
              /\ IF ~load_more_clicked /\ LimitReached(no_click_count')
                 THEN pc' = "returned" /\ stop' = "no_trigger"
                 ELSE pc' = "parse" /\ stop' = stop
              /\ UNCHANGED outVars
    /\ activated' = <<>>
    /\ UNCHANGED <<site, exVars, parseVars, akmVars, finamVars, round_num, no_new_count, load_more_clicked,
                   time_count, parses, accVars, ghostVars>>

\* a parse exception that is not caught by the round
ParseRaisesFatal ==
    /\ pc = "parse"
    /\ site \in HarvestSites
    /\ Propagate
    /\ scen' = -1
    /\ UNCHANGED <<site, exVars, parseVars, akmVars, finamVars, round_num, no_new_count, no_click_count,
                   load_more_clicked, activated, time_count, parses, accVars,
                   rounds_started, miss_run, all_clicked>>

\* an exception in the try block before the merge: caught, nothing changed
ParseRaises ==
    /\ pc = "parse"
    /\ site \in HarvestSites
    /\ pc' = "target"
    /\ scen' = -1
    /\ UNCHANGED <<site, exVars, parseVars, akmVars, finamVars, loopVars, accVars, outVars, rounds_started, miss_run, all_clicked>>

\* a stall test without the floor
StalledNoFloor(len, tc, n) == 10 * tc < 3 * len /\ 10 * n < 3 * len

\* if len(collected) > 50 and time_count < len(collected) * 0.3 and len(chunk) < len(collected) * 0.3
Stalled(len, tc, n) == len > StallFloor /\ 10 * tc < 3 * len /\ 10 * n < 3 * len

\* interfax: parse the current snapshot and merge
ParseInterfax ==
    /\ pc = "parse"
    /\ site = "interfax"
    /\ \E chunk \in Chunks :
         LET m == Merge(collected, seen, chunk)
         IN  /\ collected' = m.collected
             /\ seen' = m.seen
             /\ extracted' = extracted \cup Keys(chunk)
             /\ no_new_count' = NoNewAfterMerge(no_new_count, m.added)
             /\ added' = m.added
             /\ parsed' = Len(chunk)
             /\ scen' = ScenParse(scen, round_num, chunk)
    /\ parses' = parses + 1
    /\ pc' = "target"
    /\ UNCHANGED <<site, exVars, akmVars, finamVars, round_num, no_click_count, load_more_clicked, activated, time_count,
                   stop, outVars, rounds_started, miss_run, all_clicked>>

\* vedomosti_economics: count the time elements, parse, merge, stall heuristic
ParseEconomics ==
    /\ pc = "parse"
    /\ site = "vedomosti_economics"
    /\ \E chunk \in Chunks, tc \in TimeCounts :
         LET m == Merge(collected, seen, chunk)
         IN  /\ collected' = m.collected
             /\ seen' = m.seen
             /\ extracted' = extracted \cup Keys(chunk)
             /\ added' = m.added
             /\ parsed' = Len(chunk)
             /\ time_count' = tc
             /\ scen' = ScenParse(scen, round_num, chunk)
             /\ IF Stalled(Len(m.collected), tc, Len(chunk))
                THEN pc' = "returned" /\ stop' = "stall"
                ELSE pc' = "target" /\ stop' = stop
    /\ parses' = parses + 1
    /\ UNCHANGED <<site, exVars, akmVars, finamVars, round_num, no_new_count, no_click_count, load_more_clicked, activated,
                   outVars, rounds_started, miss_run, all_clicked>>

\* vedomosti_business, after the first merge found nothing new behind a click:
\*   "stop"    time_count < 0.3 * len and, after the re-scroll, time_count_check < 0.5 * len
\*   "raise"   the re-scroll raised (caught by the round's except)
\*   "reparse" otherwise
RetryVerdicts(len, tc) ==
    IF 10 * tc < 3 * len
    THEN {"raise"} \cup {IF 2 * tcc < len THEN "stop" ELSE "reparse" : tcc \in TimeCounts}
    ELSE {"reparse"}

\* a retry whatever the round did
RetryAlways(clicked, n) == TRUE

\* if load_more_clicked and added == 0
RetryWanted(clicked, n) == clicked /\ n = 0

\* vedomosti_business: count the time elements, parse, merge, stall heuristic,
\* and the decision to parse once more
ParseBusiness ==
    /\ pc = "parse"
    /\ site = "vedomosti_business"
    /\ \E chunk \in Chunks, tc \in TimeCounts :
         LET m == Merge(collected, seen, chunk)
             len == Len(m.collected)
         IN  /\ collected' = m.collected
             /\ seen' = m.seen
             /\ extracted' = extracted \cup Keys(chunk)
             /\ added' = m.added
             /\ parsed' = Len(chunk)
             /\ scen' = ScenParse(scen, round_num, chunk)
             /\ IF Stalled(len, tc, Len(chunk))
                THEN pc' = "returned" /\ stop' = "stall" /\ time_count' = 0
                ELSE IF RetryWanted(load_more_clicked, m.added)
                THEN \E v \in RetryVerdicts(len, tc) :
                       /\ pc' = CASE v = "stop" -> "returned"
                                  [] v = "raise" -> "target"
                                  [] v = "reparse" -> "reparse"
                       /\ stop' = IF v = "stop" THEN "reset" ELSE stop
                       /\ time_count' = IF v = "reparse" THEN tc ELSE 0
                ELSE pc' = "target" /\ stop' = stop /\ time_count' = 0
    /\ parses' = parses + 1
    /\ UNCHANGED <<site, exVars, akmVars, finamVars, round_num, no_new_count, no_click_count, load_more_clicked, activated,
                   outVars, rounds_started, miss_run, all_clicked>>

\* vedomosti_business: an exception in the wait, the scrolls or the second parse
ReparseRaises ==
    /\ pc = "reparse"
    /\ pc' = "target"
    /\ time_count' = 0
    /\ scen' = -1
    /\ UNCHANGED <<site, exVars, parseVars, akmVars, finamVars, round_num, no_new_count, no_click_count, load_more_clicked, activated,
                   parses, stop, accVars, outVars, rounds_started, miss_run, all_clicked>>

\* vedomosti_business: wait, re-scroll, parse and merge a second time
Reparse ==
    /\ pc = "reparse"
    /\ \E chunk2 \in Chunks, tc2 \in TimeCounts :
         LET m == Merge(collected, seen, chunk2)
         IN  /\ collected' = m.collected
             /\ seen' = m.seen
             /\ extracted' = extracted \cup Keys(chunk2)
             /\ added' = m.added
             /\ parsed' = Len(chunk2)
             /\ IF m.added = 0 /\ tc2 < time_count
                   /\ 10 * Len(chunk2) < 3 * Len(m.collected)
                THEN pc' = "returned" /\ stop' = "exhausted"
                ELSE pc' = "target" /\ stop' = stop
    /\ parses' = parses + 1
    /\ time_count' = 0
    /\ scen' = -1
    /\ UNCHANGED <<site, exVars, akmVars, finamVars, round_num, no_new_count, no_click_count, load_more_clicked, activated,
                   outVars, rounds_started, miss_run, all_clicked>>

\* a loop without the round cap
LastRoundNever(rn) == FALSE

\* for round_num in range(max_clicks)
LastRound(rn) == rn + 1 >= MaxClicks

\* a target test that is never true
TargetReachedNever(len) == FALSE

\* if target_count and len(collected) >= target_count
TargetReached(len) == MAX_ITEMS # 0 /\ len >= MAX_ITEMS

\* the target test that ends the round, and the step of the for loop
TargetCheck ==
    /\ pc = "target"
    /\ site \in HarvestSites
    /\ IF TargetReached(Len(collected))
       THEN /\ pc' = "returned" /\ stop' = "target"
            /\ UNCHANGED <<round_num, load_more_clicked, parses, parseVars, time_count>>
       ELSE IF LastRound(round_num)
       THEN /\ pc' = "returned" /\ stop' = "cap"
            /\ UNCHANGED <<round_num, load_more_clicked, parses, parseVars, time_count>>
       ELSE /\ pc' = "locate" /\ stop' = stop
            /\ round_num' = round_num + 1
            /\ load_more_clicked' = FALSE
            /\ parses' = 0
            /\ added' = 0
            /\ parsed' = 0
            /\ time_count' = 0
    /\ UNCHANGED <<site, exVars, akmVars, finamVars, no_new_count, no_click_count, activated,
                   accVars, outVars, ghostVars>>

\* a writer that opens the file whatever the list holds
SaveToCsvAlways(file, news_list) == [written |-> TRUE, rows |-> news_list]

\* save_to_csv: nothing is opened for an empty list
SaveToCsv(file, news_list) ==
    IF news_list = <<>> THEN file ELSE [written |-> TRUE, rows |-> news_list]

\* the states of the file when writing raised: not opened, or opened and cut short
FailedWrite(file) == {file, [written |-> TRUE, rows |-> <<>>]}

\* main after the loop returned: truncate, save (the writer may raise on a
\* non-empty list), and driver.quit() in finally
Finish ==
    /\ pc = "returned"
    /\ site \in HarvestSites
    /\ unique' = Truncate(collected)
    /\ \/ /\ csv' = SaveToCsv(csv, Truncate(collected))
          /\ stop' = stop
       \/ /\ Truncate(collected) # <<>>
          /\ csv' \in FailedWrite(csv)
          /\ stop' = "exception"
    /\ quit_calls' = quit_calls + 1
    /\ pc' = "done"
    /\ UNCHANGED <<site, exVars, parseVars, akmVars, finamVars, round_num, no_new_count, no_click_count,
                   load_more_clicked, activated, time_count, parses, accVars, ghostVars>>

NextHarvest ==
    \/ Open
    \/ Locate
    \/ SettleInterfax
    \/ SettleVedomosti
    \/ ParseRaises
    \/ ParseInterfax
    \/ ParseEconomics
    \/ ParseBusiness
    \/ ReparseRaises
    \/ Reparse
    \/ TargetCheck
    \/ Finish

\* ---------------------------------------------------------------------- akm
\* the session set-up of main
AkmBegin ==
    /\ pc = "start"
    /\ site = "akm"
    /\ pc' = "fetch"
    /\ UNCHANGED <<site, exVars, parseVars, loopVars, accVars, outVars, akmVars, finamVars, ghostVars>>

\* a loop test without the page cap
AkmLoopTestNoCap(url, page) == url # 0

\* while current_url and page_num <= max_pages
AkmLoopTest(url, page) == url # 0 /\ page <= MaxPages

\* a failed request that drops what was accumulated
AkmRequestFailsDiscard ==
    /\ pc = "fetch"
    /\ pc' = "returned"
    /\ stop' = "request_failed"
    /\ rounds_started' = rounds_started + 1
    /\ collected' = <<>>
    /\ seen' = {}
    /\ UNCHANGED <<site, exVars, parseVars, akmVars, finamVars, round_num, no_new_count, no_click_count,
                   load_more_clicked, activated, time_count, parses, outVars,
                   extracted, miss_run, all_clicked, scen>>

\* one pass of the while loop: the request failed
AkmRequestFails ==
    /\ pc = "fetch"
    /\ pc' = "returned"
    /\ stop' = "request_failed"
    /\ rounds_started' = rounds_started + 1
    /\ UNCHANGED <<site, exVars, parseVars, akmVars, finamVars, round_num, no_new_count, no_click_count,
                   load_more_clicked, activated, time_count, parses, accVars, outVars,
                   miss_run, all_clicked, scen>>

\* one pass of the while loop: fetch, extract, merge, follow the next-page link
\* (next = 0: find_next_page_url returned None)
AkmPage ==
    /\ pc = "fetch"
    /\ \E page_news \in Chunks, next \in {0} \cup Urls :
         IF page_news = <<>>
         THEN /\ pc' = "returned"
              /\ stop' = "empty_page"
              /\ UNCHANGED <<accVars, akmVars>>
         ELSE LET m == Merge(collected, seen, page_news)
              IN  /\ collected' = m.collected
                  /\ seen' = m.seen
                  /\ extracted' = extracted \cup Keys(page_news)
                  /\ IF next = 0
                     THEN /\ pc' = "returned"
                          /\ stop' = "no_next"
                          /\ UNCHANGED akmVars
                     ELSE /\ current_url' = next
                          /\ page_num' = page_num + 1
                          /\ IF AkmLoopTest(next, page_num + 1)
                             THEN pc' = "fetch" /\ stop' = stop
                             ELSE pc' = "returned" /\ stop' = "cap"
    /\ rounds_started' = rounds_started + 1
    /\ UNCHANGED <<site, exVars, parseVars, finamVars, round_num, no_new_count, no_click_count,
                   load_more_clicked, activated, time_count, parses, outVars, miss_run, all_clicked, scen>>

\* main after the loop: return on an empty list, else save_news_to_csv(all_news)
AkmFinish ==
    /\ pc = "returned"
    /\ site = "akm"
    /\ unique' = collected
    /\ csv' = SaveToCsv(csv, collected)
    /\ pc' = "done"
    /\ UNCHANGED <<site, exVars, parseVars, loopVars, accVars, quit_calls, akmVars, finamVars, ghostVars>>

\* -------------------------------------------------------------------- finam
\* driver.get, the waits, and last_height read before the loop
FinamOpen ==
    /\ pc = "start"
    /\ site = "finam"
    /\ \E ok \in BOOLEAN, h \in Heights :
         IF ok
         THEN pc' = "locate" /\ last_height' = h /\ UNCHANGED <<stop, outVars>>
         ELSE Propagate /\ UNCHANGED last_height
    /\ UNCHANGED <<site, exVars, parseVars, akmVars, new_height, last_news_count, same_height_count, rendered,
                   round_num, no_new_count, no_click_count, load_more_clicked, activated,
                   time_count, parses, accVars, ghostVars>>

\* the two scrolls, the locator cascade, the wait and scroll after a click, and
\* the read of new_height
FinamLocate ==
    /\ pc = "locate"
    /\ site = "finam"
    /\ \E r \in FinamCascade, ok \in BOOLEAN, h \in Heights :
         /\ load_more_clicked' = r.clicked
         /\ activated' = r.activated
         /\ IF r.raised \/ ~ok
            THEN Propagate /\ UNCHANGED new_height
            ELSE pc' = "count" /\ new_height' = h /\ UNCHANGED <<stop, outVars>>
    /\ rounds_started' = rounds_started + 1
    /\ UNCHANGED <<site, exVars, parseVars, akmVars, last_height, last_news_count, same_height_count, rendered,
                   round_num, no_new_count, no_click_count, time_count, parses,
                   accVars, miss_run, all_clicked, scen>>

\* if target_count and current_count >= target_count
FinamTargetReached(count) == FinamTarget # 0 /\ count >= FinamTarget

\* find_elements raised: except Exception: pass
FinamCountRaises ==
    /\ pc \in {"count", "recount"}
    /\ pc' = "height"
    /\ activated' = <<>>
    /\ UNCHANGED <<site, exVars, parseVars, akmVars, finamVars, round_num, no_new_count, no_click_count,
                   load_more_clicked, time_count, parses, stop, accVars, outVars, ghostVars>>

\* the count of article links and, when it grew, the target test
FinamCount ==
    /\ pc = "count"
    /\ \E snap \in FinamSnaps :
         /\ rendered' = rendered \cup Keys(snap)
         /\ IF Len(snap) > last_news_count
            THEN /\ last_news_count' = Len(snap)
                 /\ same_height_count' = 0
                 /\ IF FinamTargetReached(Len(snap))
                    THEN pc' = "returned" /\ stop' = "target"
                    ELSE pc' = "height" /\ stop' = stop
                 /\ time_count' = time_count
            ELSE /\ UNCHANGED <<last_news_count, same_height_count, stop>>
                 /\ pc' = IF load_more_clicked THEN "recount" ELSE "height"
                 /\ time_count' = IF load_more_clicked THEN Len(snap) ELSE time_count
    /\ activated' = <<>>
    /\ UNCHANGED <<site, exVars, parseVars, akmVars, last_height, new_height, round_num, no_new_count,
                   no_click_count, load_more_clicked, parses, accVars, outVars, ghostVars>>

\* behind a click that showed no growth: wait and count once more
\* (time_count holds current_count of the first read)
FinamRecount ==
    /\ pc = "recount"
    /\ \E snap \in FinamSnaps :
         /\ rendered' = rendered \cup Keys(snap)
         /\ IF Len(snap) > time_count
            THEN /\ last_news_count' = Len(snap)
                 /\ same_height_count' = 0
                 /\ IF FinamTargetReached(Len(snap))
                    THEN pc' = "returned" /\ stop' = "target"
                    ELSE pc' = "height" /\ stop' = stop
            ELSE /\ UNCHANGED <<last_news_count, same_height_count, stop>>
                 /\ pc' = "height"
    /\ time_count' = 0
    /\ UNCHANGED <<site, exVars, parseVars, akmVars, last_height, new_height, round_num, no_new_count,
                   no_click_count, load_more_clicked, activated, parses, accVars, outVars,
                   ghostVars>>

\* a loop without the round cap
FinamLastRoundNever(i) == FALSE

\* for i in range(max_rounds)
FinamLastRound(i) == i + 1 >= MaxRounds

\* the height test that ends the round, and the step of the for loop
FinamHeight ==
    /\ pc = "height"
    /\ IF new_height = last_height
       THEN /\ same_height_count' = same_height_count + 1
            /\ last_height' = last_height
       ELSE /\ same_height_count' = 0
            /\ last_height' = new_height
    /\ IF new_height = last_height /\ same_height_count' >= SameHeightLimit
       THEN /\ pc' = "returned" /\ stop' = "same_height"
            /\ UNCHANGED <<round_num, load_more_clicked>>
       ELSE IF FinamLastRound(round_num)
       THEN /\ pc' = "returned" /\ stop' = "cap"
            /\ UNCHANGED <<round_num, load_more_clicked>>
       ELSE /\ pc' = "locate" /\ stop' = stop
            /\ round_num' = round_num + 1
            /\ load_more_clicked' = FALSE
    /\ UNCHANGED <<site, exVars, parseVars, akmVars, new_height, last_news_count, rendered, no_new_count,
                   no_click_count, activated, time_count, parses,
                   accVars, outVars, ghostVars>>

\* main after the loop: read page_source, extract, return on an empty list,
\* remove duplicate keys, save; driver.quit() in finally
FinamFinish ==
    /\ pc = "returned"
    /\ site = "finam"
    /\ \/ \E news_list \in FinamSnaps :
            LET m == Merge(<<>>, {}, news_list)
            IN  /\ collected' = m.collected
                /\ seen' = m.seen
                /\ extracted' = Keys(news_list)
                /\ unique' = m.collected
                /\ \/ /\ csv' = SaveToCsv(csv, m.collected)
                      /\ stop' = stop
                   \/ /\ m.collected # <<>>
                      /\ csv' \in FailedWrite(csv)
                      /\ stop' = "exception"
                /\ parses' = parses + 1
                /\ quit_calls' = quit_calls + 1
                /\ pc' = "done"
       \/ /\ Propagate
          /\ UNCHANGED <<accVars, parses>>
    /\ UNCHANGED <<site, exVars, parseVars, akmVars, finamVars, round_num, no_new_count, no_click_count,
                   load_more_clicked, activated, time_count, ghostVars>>

NextAkm ==
    \/ AkmBegin
    \/ AkmRequestFails
    \/ AkmPage
    \/ AkmFinish

NextFinam ==
    \/ FinamOpen
    \/ FinamLocate
    \/ FinamCountRaises
    \/ FinamCount
    \/ FinamRecount
    \/ FinamHeight
    \/ FinamFinish

Next == NextHarvest \/ NextAkm \/ NextFinam

Spec == Init /\ [][Next]_vars

\* ============================================================ pure functions
\* Texts are strings; SubSeq, Len and \o act on them as on sequences.
Digits == {"0", "1", "2", "3", "4", "5", "6", "7", "8", "9"}

\* stands for U+00A0, which str.strip() removes like a blank
NBSP == "~"

Whitespace == {" ", NBSP}

Char(str, k) == SubSeq(str, k, k)

\* x or y
Or(x, y) == IF x # "" THEN x ELSE y

StartsWith(str, p) == Len(p) <= Len(str) /\ SubSeq(str, 1, Len(p)) = p

\* sub in str
Contains(str, sub) ==
    \E k \in 1..(Len(str) - Len(sub) + 1) : SubSeq(str, k, k + Len(sub) - 1) = sub

\* str.strip()
RECURSIVE LStrip(_)
LStrip(str) ==
    IF Len(str) > 0 /\ Char(str, 1) \in Whitespace
    THEN LStrip(SubSeq(str, 2, Len(str)))
    ELSE str

RECURSIVE RStrip(_)
RStrip(str) ==
    IF Len(str) > 0 /\ Char(str, Len(str)) \in Whitespace
    THEN RStrip(SubSeq(str, 1, Len(str) - 1))
    ELSE str

Strip(str) == RStrip(LStrip(str))

\* str[:n]
Prefix(str, n) == SubSeq(str, 1, IF Len(str) < n THEN Len(str) ELSE n)

\* the character references that occur in the texts of the model
Entities == {<<"&amp;", "&">>, <<"&nbsp;", NBSP>>}

\* html.unescape(str)
RECURSIVE unescape(_)
unescape(str) ==
    IF str = "" THEN ""
    ELSE IF \E e \in Entities : StartsWith(str, e[1])
         THEN LET e == CHOOSE e \in Entities : StartsWith(str, e[1])
              IN  e[2] \o unescape(SubSeq(str, Len(e[1]) + 1, Len(str)))
         ELSE Char(str, 1) \o unescape(SubSeq(str, 2, Len(str)))

\* element.get_text(sep, strip=True) of an element whose text nodes are
\* nodes: each node trimmed, the empty ones dropped, the rest joined by sep
RECURSIVE get_text(_, _)
get_text(nodes, sep) ==
    IF nodes = <<>> THEN ""
    ELSE LET h == Strip(Head(nodes))
             r == get_text(Tail(nodes), sep)
         IN  IF h = "" THEN r ELSE IF r = "" THEN h ELSE h \o sep \o r

\* DATE_DOT_PATTERN = ^(\d{2})\.(\d{2})\.(\d{4})$
DATE_DOT_PATTERN(str) ==
    /\ Len(str) = 10
    /\ \A k \in {1, 2, 4, 5, 7, 8, 9, 10} : Char(str, k) \in Digits
    /\ Char(str, 3) = "."
    /\ Char(str, 6) = "."

\* a conversion that keeps the day-month-year order
DotDateKeepOrder(dot_date) ==
    LET t == Strip(dot_date)
    IN  IF DATE_DOT_PATTERN(t)
        THEN SubSeq(t, 1, 2) \o "-" \o SubSeq(t, 4, 5) \o "-" \o SubSeq(t, 7, 10)
        ELSE dot_date

\* m = DATE_DOT_PATTERN.match(dot_date.strip()); f"{y}-{mon}-{d}" on a
\* match, dot_date itself otherwise
dot_date_to_iso(dot_date) ==
    LET t == Strip(dot_date)
    IN  IF DATE_DOT_PATTERN(t)
        THEN SubSeq(t, 7, 10) \o "-" \o SubSeq(t, 4, 5) \o "-" \o SubSeq(t, 1, 2)
        ELSE dot_date

\* ------------------------------------------------------ vedomosti extractor
\* A page is a list of cards; a card holds its time elements and its links.
\* A time element has a datetime attribute and text nodes, a link has an
\* href, text nodes and a title attribute (an absent attribute is "").

\* re.match(r"^\d{4}-\d{2}-\d{2}", date_text)
IsoDatePrefix(str) ==
    /\ Len(str) >= 10
    /\ \A k \in {1, 2, 3, 4, 6, 7, 9, 10} : Char(str, k) \in Digits
    /\ Char(str, 5) = "-"
    /\ Char(str, 8) = "-"

\* (time_el.get("datetime") or time_el.get_text(strip=True) or "").strip()
DateText(time_el) == Strip(Or(time_el.datetime, get_text(time_el.text, "")))

\* the date of a time element, "" when it has none the extractor accepts
DateIso(time_el) ==
    LET date_text == DateText(time_el)
    IN  IF date_text = "" THEN ""
        ELSE IF IsoDatePrefix(date_text) THEN Prefix(date_text, 10)
        ELSE IF DATE_DOT_PATTERN(date_text) THEN dot_date_to_iso(date_text)
        ELSE ""

BadMarks == {"#", "javascript:", "mailto:", "tel:"}

BusinessSections == {"/business/", "/finance/"}

EconomicsSections == {"/economics/"}

\* the href test of the direct pass
is_news_link(href, sections) ==
    \/ \E s \in sections \cup {"/news/", "/articles/"} : Contains(href, s)
    \/ /\ StartsWith(href, "/")
       /\ Len(href) > 10
       /\ ~\E x \in BadMarks : Contains(href, x)

\* title = a.get_text(" ", strip=True) or (a.get("title") or ""), then
\* html.unescape(title).strip()
LinkTitle(a) == Strip(unescape(Or(get_text(a.text, " "), a.title)))

\* not (not title or len(title) < 2)
TitleAccepted(title) == title # "" /\ Len(title) >= 2

NoItems == [result |-> <<>>, seen_keys |-> {}]

\* key = (date_iso, title); if key not in seen_keys: add and append
AddItem(st, date_iso, title) ==
    IF <<date_iso, title>> \in st.seen_keys
    THEN st
    ELSE [result |-> Append(st.result, [date |-> date_iso, title |-> title]),
          seen_keys |-> st.seen_keys \cup {<<date_iso, title>>}]

RECURSIVE LinksOf(_)
LinksOf(page) == IF page = <<>> THEN <<>> ELSE Head(page).links \o LinksOf(Tail(page))

RECURSIVE TimesOf(_)
TimesOf(page) == IF page = <<>> THEN <<>> ELSE Head(page).times \o TimesOf(Tail(page))

\* the link of a time element: the first link of its card, else the first
\* link under the third ancestor, which is the list of cards
DirectLink(page, card) ==
    IF card.links # <<>> THEN Prefix(card.links, 1) ELSE Prefix(LinksOf(page), 1)

\* one time element of the direct pass
DirectStep(page, card, st, sections) ==
    IF card.times = <<>> THEN st
    ELSE LET date_iso == DateIso(card.times[1])
             as == DirectLink(page, card)
         IN  IF date_iso = "" \/ as = <<>> THEN st
             ELSE LET a == as[1]
                      title == LinkTitle(a)
                  IN  IF a.href = "" \/ ~is_news_link(a.href, sections) \/ ~TitleAccepted(title)
                      THEN st
                      ELSE AddItem(st, date_iso, title)

RECURSIVE DirectPass(_, _, _, _)
DirectPass(page, k, st, sections) ==
    IF k > Len(page) THEN st
    ELSE DirectPass(page, k + 1, DirectStep(page, page[k], st, sections), sections)

\* the date the inverse pass finds for a link: current.find("time") on the
\* way up gives the first time element of the card, then the first one of
\* the page
NearestDate(page, card) ==
    LET own == IF card.times = <<>> THEN "" ELSE DateIso(card.times[1])
        all == TimesOf(page)
    IN  IF own # "" THEN own
        ELSE IF all = <<>> THEN "" ELSE DateIso(all[1])

\* one link of the inverse pass
InverseStep(page, card, st, sections) ==
    IF card.links = <<>> THEN st
    ELSE LET a == card.links[1]
             title == LinkTitle(a)
             date_iso == NearestDate(page, card)
         IN  IF \/ ~\E s \in sections : Contains(a.href, s)
                \/ \E x \in BadMarks : Contains(a.href, x)
                \/ ~TitleAccepted(title)
                \/ date_iso = ""
             THEN st
             ELSE AddItem(st, date_iso, title)

RECURSIVE InversePass(_, _, _, _)
InversePass(page, k, st, sections) ==
    IF k > Len(page) THEN st
    ELSE InversePass(page, k + 1, InverseStep(page, page[k], st, sections), sections)

\* an extractor whose inverse pass starts from an empty seen_keys
ExtractTwoSeenSets(page, sections) ==
    LET direct == DirectPass(page, 1, NoItems, sections)
    IN  direct.result \o InversePass(page, 1, NoItems, sections).result

\* extract_news_from_page of vedomosti_business and vedomosti_economics
vedomosti_extract(page, sections) ==
    InversePass(page, 1, DirectPass(page, 1, NoItems, sections), sections).result

\* ------------------------------------------------------- interfax extractor
\* A page is a list of div.timeline blocks; a timeline is a list of the
\* parents of its time elements, each with the datetime attribute of the
\* time element and the links below the parent.  A link has an href, a title
\* attribute and the text nodes of its h3 (none when it has no h3).

InterfaxSections == {"business", "world", "russia", "moscow", "digital", "news", "culture"}

\* NEWS_HREF_PATTERN = ^(?:https?://[^/]+)?/(business|...|culture)/\d+ on
\* lower-case hrefs; k is where the path starts
NEWS_HREF_PATTERN(href) ==
    \E k \in 1..Len(href) :
        /\ \/ k = 1
           \/ \E scheme \in {"http://", "https://"} :
                /\ StartsWith(href, scheme)
                /\ k > Len(scheme) + 1
                /\ ~Contains(SubSeq(href, Len(scheme) + 1, k - 1), "/")
        /\ \E s \in InterfaxSections :
             LET p == "/" \o s \o "/"
             IN  /\ Len(href) >= k + Len(p)
                 /\ SubSeq(href, k, k + Len(p) - 1) = p
                 /\ Char(href, k + Len(p)) \in Digits

\* str.replace("T", " ")
RECURSIVE ReplaceT(_)
ReplaceT(str) ==
    IF str = "" THEN ""
    ELSE (IF Char(str, 1) = "T" THEN " " ELSE Char(str, 1)) \o ReplaceT(SubSeq(str, 2, Len(str)))

\* date_str = datetime_val.replace("T", " ")[:16]
InterfaxDate(datetime_val) == Prefix(ReplaceT(datetime_val), 16)

\* title = a.get("title") or (a.find("h3") and a.find("h3").get_text(" ",
\* strip=True)) or ""; html.unescape(title).strip()
InterfaxTitle(a) == Strip(unescape(Or(a.title, get_text(a.h3, " "))))

\* one time element: no item, or the item appended to result
BlockItems(block) ==
    LET as == SelectSeq(block.links, LAMBDA a : NEWS_HREF_PATTERN(a.href))
        datetime_val == Strip(block.datetime)
    IN  IF as = <<>> \/ datetime_val = "" \/ InterfaxTitle(as[1]) = ""
        THEN <<>>
        ELSE <<[date |-> InterfaxDate(datetime_val), title |-> InterfaxTitle(as[1])]>>

\* for time_el in timeline.find_all("time", datetime=True)
RECURSIVE TimelineItems(_)
TimelineItems(timeline) ==
    IF timeline = <<>> THEN <<>>
    ELSE BlockItems(Head(timeline)) \o TimelineItems(Tail(timeline))

\* extract_news_from_page of interfax: for timeline in timelines
RECURSIVE interfax_extract(_)
interfax_extract(page) ==
    IF page = <<>> THEN <<>>
    ELSE TimelineItems(Head(page)) \o interfax_extract(Tail(page))

\* ------------------------------------------------------------ akm extractor
\* A page is a list of div.b-section-item blocks, each with the text nodes
\* of its title link (none when the h3 or the link is missing) and the
\* spans of its meta block, a span being its text nodes.

\* one block: no item, or the item appended to news_list
AkmItem(item) ==
    LET title == get_text(item.title, "")
        date_text == IF item.spans = <<>> THEN ""
                     ELSE get_text(item.spans[Len(item.spans)], "")
    IN  IF title = "" \/ date_text = ""
        THEN <<>>
        ELSE <<[date |-> date_text, title |-> title]>>

\* get_akm_news: for item in items
RECURSIVE get_akm_news(_)
get_akm_news(page) ==
    IF page = <<>> THEN <<>>
    ELSE AkmItem(Head(page)) \o get_akm_news(Tail(page))

\* ---------------------------------------------------------- finam extractor
\* A page is the list of its a[href] elements, each with its href, its own
\* text nodes, the text nodes that follow it under its parent and its title
\* attribute.

BASE_URL == "https://www.finam.ru/"

\* urljoin(BASE_URL, href) for an absolute URL, an absolute path and a
\* relative path
urljoin(href) ==
    IF StartsWith(href, "http://") \/ StartsWith(href, "https://") THEN href
    ELSE IF StartsWith(href, "/") THEN SubSeq(BASE_URL, 1, Len(BASE_URL) - 1) \o href
    ELSE BASE_URL \o href

\* article_href_pattern.search(href), on lower-case hrefs
article_href_pattern(href) ==
    \E p \in {"/publications/item/", "bonds.finam.ru/news/item/", "bonds.finam.ru/comments/item/"} :
        Contains(href, p)

\* str.split("/")[-2] if "/" in str else str
PathSegment(str) ==
    LET slashes == {k \in 1..Len(str) : Char(str, k) = "/"}
    IN  IF slashes = {} THEN str
        ELSE LET j == CHOOSE k \in slashes : \A l \in slashes : l <= k
                 before == {k \in slashes : k < j} \cup {0}
                 i == CHOOSE k \in before : \A l \in before : l <= k
             IN  SubSeq(str, i + 1, j - 1)

\* -([0-9]{8})-([0-9]{4})(?:/|$) matches url at position k
TokenAt(url, k) ==
    /\ Len(url) >= k + 13
    /\ Char(url, k) = "-"
    /\ \A d \in 1..8 : Char(url, k + d) \in Digits
    /\ Char(url, k + 9) = "-"
    /\ \A d \in 10..13 : Char(url, k + d) \in Digits
    /\ Len(url) = k + 13 \/ Char(url, k + 14) = "/"

\* a derivation that returns the day without the time
ParseDateOnly(url) ==
    IF ~\E k \in 1..Len(url) : TokenAt(url, k) THEN ""
    ELSE LET k == CHOOSE k \in 1..Len(url) : TokenAt(url, k) /\ \A l \in 1..(k - 1) : ~TokenAt(url, l)
         IN  SubSeq(url, k + 1, k + 4) \o "-" \o SubSeq(url, k + 5, k + 6) \o "-" \o SubSeq(url, k + 7, k + 8)

\* parse_datetime_from_url: re.search takes the leftmost match
parse_datetime_from_url(url) ==
    IF ~\E k \in 1..Len(url) : TokenAt(url, k) THEN ""
    ELSE LET k == CHOOSE k \in 1..Len(url) : TokenAt(url, k) /\ \A l \in 1..(k - 1) : ~TokenAt(url, l)
         IN  SubSeq(url, k + 1, k + 4) \o "-" \o SubSeq(url, k + 5, k + 6) \o "-" \o SubSeq(url, k + 7, k + 8)
               \o " " \o SubSeq(url, k + 10, k + 11) \o ":" \o SubSeq(url, k + 12, k + 13)

\* the text of a link after the fallbacks: parent text, title attribute, URL
\* path segment
AnchorText(a) ==
    LET own == get_text(a.text, " ")
        parent_text == get_text(a.text \o a.siblings, " ")
        text1 == IF Len(own) < 5 /\ Len(parent_text) > Len(own) /\ Len(parent_text) > 10
                 THEN parent_text ELSE own
        text2 == IF Len(text1) < 5 /\ a.title # "" /\ Len(a.title) > 5 THEN a.title ELSE text1
    IN  IF Len(text2) < 5 THEN PathSegment(a.href) ELSE text2

\* len(text) < 20 and (... or ">" in text); the two Russian phrases and the
\* arrow are not characters of the texts of the model
IsNavigational(text) == Len(text) < 20 /\ Contains(text, ">")

\* a link the loop does not skip
Qualifies(a) == article_href_pattern(a.href) /\ ~IsNavigational(AnchorText(a))

\* len(text) > len(info["title"]) and (len(text) > len(info["title"]) * 1.2
\* or len(info["title"]) < 10), for a kept title of length k and a text of
\* length t
Replaces(k, t) == t > k /\ (5 * t > 6 * k \/ k < 10)

\* body of for a_tag in soup.find_all("a", href=True): articles in insertion
\* order
FinamStep(articles, a) ==
    IF ~Qualifies(a) THEN articles
    ELSE LET full_url == urljoin(a.href)
             text == AnchorText(a)
             arts == IF \E k \in 1..Len(articles) : articles[k].url = full_url
                     THEN articles
                     ELSE Append(articles, [url |-> full_url,
                                            date |-> parse_datetime_from_url(full_url),
                                            title |-> ""])
         IN  [k \in 1..Len(arts) |->
                IF arts[k].url = full_url /\ Replaces(Len(arts[k].title), Len(text))
                THEN [arts[k] EXCEPT !.title = text]
                ELSE arts[k]]

RECURSIVE FinamArticles(_)
FinamArticles(page) ==
    IF page = <<>> THEN <<>>
    ELSE FinamStep(FinamArticles(SubSeq(page, 1, Len(page) - 1)), page[Len(page)])

\* extract_news_from_page of finam
finam_extract(page) ==
    LET arts == FinamArticles(page)
    IN  [k \in 1..Len(arts) |->
            [date |-> arts[k].date,
             title |-> IF arts[k].title # "" THEN arts[k].title ELSE PathSegment(arts[k].url)]]

\* ---------------------------------------------------------------- arguments
\* bounded sequences over a set
SeqsUpTo(S, n) == UNION {[1..m -> S] : m \in 0..n}

DateBases ==
    {"05.02.2026", "31.12.1999", "2026-02-05T12:18:00", "2026-02-05", "not a date",
     "", "5.02.2026", "05.02.26", "05/02/2026", "05.02.20261"}

Blanks == {"", " ", "  "}

\* each base with blanks around it, and the dotted date with one character
\* replaced
DateInputs ==
    {l \o b \o r : l \in Blanks, r \in Blanks, b \in DateBases}
    \cup {SubSeq("05.02.2026", 1, k - 1) \o c \o SubSeq("05.02.2026", k + 1, 10) :
            k \in 1..10, c \in {"x", ".", "7", " ", "-"}}

VedomostiTimes ==
    {[datetime |-> "2026-02-05T12:18:00", text |-> <<"12:18">>],
     [datetime |-> "", text |-> <<" 05.02.2026 ">>],
     [datetime |-> "", text |-> <<"now">>]}

VedomostiLinks(section) ==
    {[href |-> section \o "a1", text |-> <<"Ab">>, title |-> ""],
     [href |-> "/articles/2026/b2", text |-> <<" Ab ">>, title |-> ""],
     [href |-> section \o "a3", text |-> <<>>, title |-> "Cd"],
     [href |-> section \o "a4", text |-> <<"Ab">>, title |-> "Cd"],
     [href |-> section \o "a5", text |-> <<"&amp;">>, title |-> ""],
     [href |-> section \o "a6#c", text |-> <<"E", "f">>, title |-> ""],
     [href |-> "/faq", text |-> <<"Gh">>, title |-> ""],
     [href |-> section \o "a8", text |-> <<"&nbsp;A">>, title |-> "Cd"]}

VedomostiCards(section) ==
    [times : SeqsUpTo(VedomostiTimes, 1), links : SeqsUpTo(VedomostiLinks(section), 1)]

VedomostiPages(section) == SeqsUpTo(VedomostiCards(section), MaxCards)

InterfaxLinks ==
    {[href |-> "/business/1001", title |-> "", h3 |-> <<"Ab">>],
     [href |-> "/business/1001", title |-> "Cd", h3 |-> <<"Ab">>],
     [href |-> "https://www.interfax.ru/russia/1002", title |-> "Cd", h3 |-> <<>>],
     [href |-> "/photo/7", title |-> "Ef", h3 |-> <<>>],
     [href |-> "/world/1003", title |-> "", h3 |-> <<"&nbsp;">>]}

InterfaxBlocks ==
    [datetime : {"", "2026-02-05T12:18:00", "2026-02-05T12:18:30", "2026-02-06T09:00:00"},
     links : SeqsUpTo(InterfaxLinks, 1)]

\* up to MaxBlocks time elements, in one timeline or in one timeline each
InterfaxPages ==
    {<<tl>> : tl \in SeqsUpTo(InterfaxBlocks, MaxBlocks)}
    \cup SeqsUpTo({<<b>> : b \in InterfaxBlocks}, MaxBlocks)

AkmPages ==
    SeqsUpTo([title : {<<>>, <<" Ab ">>, <<"Cd">>},
              spans : {<<>>, <<<<"05 Feb 2026 12:18">>>>, <<<<"Markets">>, <<"05 Feb 2026 12:18">>>>,
                       <<<<"06 Feb 2026 09:00">>, <<>>>>}],
             MaxBlocks)

FinamHrefs ==
    {"/publications/item/ab-20240702-1943/",
     "https://www.finam.ru/publications/item/ab-20240702-1943/",
     "/publications/item/cd-20240702-1943/",
     "/publications/item/42/",
     "/about/"}

\* short texts with every fallback, longer texts of 7, 10, 11 and 12
\* characters, a navigational text, and a text next to a title attribute
FinamAnchors ==
    [href : FinamHrefs, text : {<<>>, <<"Ab">>}, siblings : {<<>>, <<"a long teaser">>},
     title : {"", "Label six"}]
    \cup [href : FinamHrefs,
          text : {<<"Seven c">>, <<"Ten chars.">>, <<"Eleven char">>, <<"Twelve chars">>, <<"More >">>},
          siblings : {<<>>}, title : {""}]
    \cup [href : FinamHrefs, text : {<<"Ten chars.">>}, siblings : {<<>>}, title : {"Label six"}]

FinamPages == SeqsUpTo(FinamAnchors, MaxAnchors)

UrlInputs ==
    {"https://www.finam.ru/publications/item/ab-20240702-1943/",
     "https://www.finam.ru/publications/item/ab-20240702-1943",
     "https://www.finam.ru/publications/item/ab-20240702-1943/comments/",
     "https://www.finam.ru/publications/item/ab-20240702-1943?p=1",
     "https://www.finam.ru/publications/item/ab-20240702-19435/",
     "https://www.finam.ru/publications/item/ab-2024070-1943/",
     "https://www.finam.ru/publications/item/ab-120240702-1943/",
     "https://www.finam.ru/publications/item/ab20240702-1943/",
     "https://www.finam.ru/publications/item/ab-20231231-2359-20240702-1943/",
     "https://www.finam.ru/x-20231231-2359/item/ab-20240702-1943/",
     "https://www.finam.ru/publications/item/42/",
     "-20240702-1943",
     ""}

\* ------------------------------------------------------- calls and returns
programVars == <<site, pc, loopVars, parseVars, accVars, outVars, akmVars, finamVars, ghostVars>>

\* no program runs while a function is called on its own
ProgramAtRest ==
    /\ site = "none"
    /\ pc = "done"
    /\ round_num = 0
    /\ collected = <<>>
    /\ seen = {}
    /\ no_new_count = 0
    /\ no_click_count = 0
    /\ load_more_clicked = FALSE
    /\ activated = <<>>
    /\ time_count = 0
    /\ parses = 0
    /\ added = 0
    /\ parsed = 0
    /\ stop = "none"
    /\ unique = <<>>
    /\ csv = PriorFile
    /\ quit_calls = 0
    /\ current_url = START_URL
    /\ page_num = 1
    /\ last_height = 1
    /\ new_height = 1
    /\ rendered = {}
    /\ last_news_count = 0
    /\ same_height_count = 0
    /\ extracted = {}
    /\ rounds_started = 0
    /\ miss_run = 0
    /\ all_clicked = TRUE
    /\ scen = 0

InitExtract ==
    /\ ProgramAtRest
    /\ ex_pc = "call"
    /\ ex_out = <<>>
    /\ \/ ex_fn = "dot_date_to_iso" /\ ex_in \in DateInputs
       \/ ex_fn = "vedomosti_business" /\ ex_in \in VedomostiPages("/business/")
       \/ ex_fn = "vedomosti_economics" /\ ex_in \in VedomostiPages("/economics/")
       \/ ex_fn = "interfax" /\ ex_in \in InterfaxPages
       \/ ex_fn = "akm" /\ ex_in \in AkmPages
       \/ ex_fn = "finam" /\ ex_in \in FinamPages
       \/ ex_fn = "parse_datetime_from_url" /\ ex_in \in UrlInputs

Return(out) ==
    /\ ex_pc = "call"
    /\ ex_out' = out
    /\ ex_pc' = "return"
    /\ UNCHANGED <<ex_fn, ex_in, programVars>>

CallDotDateToIso ==
    /\ ex_fn = "dot_date_to_iso"
    /\ Return(dot_date_to_iso(ex_in))

CallExtractBusiness ==
    /\ ex_fn = "vedomosti_business"
    /\ Return(vedomosti_extract(ex_in, BusinessSections))

CallExtractEconomics ==
    /\ ex_fn = "vedomosti_economics"
    /\ Return(vedomosti_extract(ex_in, EconomicsSections))

CallExtractInterfax ==
    /\ ex_fn = "interfax"
    /\ Return(interfax_extract(ex_in))

CallGetAkmNews ==
    /\ ex_fn = "akm"
    /\ Return(get_akm_news(ex_in))

CallExtractFinam ==
    /\ ex_fn = "finam"
    /\ Return(finam_extract(ex_in))

CallParseDatetimeFromUrl ==
    /\ ex_fn = "parse_datetime_from_url"
    /\ Return(parse_datetime_from_url(ex_in))

NextExtract ==
    \/ CallDotDateToIso
    \/ CallExtractBusiness
    \/ CallExtractEconomics
    \/ CallExtractInterfax
    \/ CallGetAkmNews
    \/ CallExtractFinam
    \/ CallParseDatetimeFromUrl

ExtractSpec == InitExtract /\ [][NextExtract]_vars

\* ============================================================== properties
IsPrefix(s, t) == Len(s) <= Len(t) /\ SubSeq(t, 1, Len(s)) = s

Min(a, b) == IF a <= b THEN a ELSE b

\* the loop was left by one of its own exits, and main has finished
Finished == pc = "done" /\ stop # "exception"

\* ----------------------------------------------------------------------- C1
\* C1: in interfax, both vedomosti harvesters and akm, the accumulator list
\* never holds two entries with the same (date, title) key, and the seen-set
\* is exactly the set of keys of the entries of the list.
C1_NoDuplicateKeys ==
    site \in HarvestSites \cup {"akm"} =>
        /\ \A i, j \in 1..Len(collected) :
             Key(collected[i]) = Key(collected[j]) => i = j
        /\ seen = Keys(collected)

\* a round whose snapshot repeated keys: fewer items admitted than parsed
C1_Witness ==
    /\ site \in HarvestSites
    /\ pc = "target"
    /\ round_num >= 1
    /\ parsed = MaxChunk
    /\ added < parsed
    /\ Len(collected) >= 2

\* ----------------------------------------------------------------------- C2
\* positions of a chunk that hold a key neither seen before nor earlier in the chunk
NewPositions(sn, chunk) ==
    {k \in 1..Len(chunk) :
        Key(chunk[k]) \notin sn /\ \A j \in 1..(k - 1) : Key(chunk[j]) # Key(chunk[k])}

\* t is s followed by the items of chunk at the positions P, in chunk order
AppendsInOrder(s, t, chunk, P) ==
    /\ IsPrefix(s, t)
    /\ Len(t) = Len(s) + Cardinality(P)
    /\ \A k \in P :
         t[Len(s) + Cardinality({j \in P : j <= k})] = chunk[k]

\* C2: the accumulator only grows by appending.  Every step leaves the old
\* list as a prefix of the new one, and a merge appends exactly the items of
\* the chunk whose key is new, in chunk order, whatever their dates: an item
\* first seen earlier precedes every item first seen later.
C2_AppendOnly ==
    /\ [][IsPrefix(collected, collected')]_vars
    /\ [](\A chunk \in Chunks :
            AppendsInOrder(collected, Merge(collected, seen, chunk).collected,
                           chunk, NewPositions(seen, chunk)))

\* a later round appended an item whose date is older than that of an item
\* collected in an earlier round
C2_Witness ==
    /\ site \in HarvestSites
    /\ pc = "target"
    /\ round_num >= 1
    /\ added = 1
    /\ Len(collected) >= 2
    /\ collected[Len(collected)].date < collected[1].date

\* ----------------------------------------------------------------------- C3
\* C3: in interfax and vedomosti an item the extractor returned in any parsed
\* round stays in the accumulator; once main has finished it is missing from
\* the output only if it lies beyond the first MAX_ITEMS entries.
C3_ExtractedIsKept ==
    site \in HarvestSites =>
        /\ extracted \subseteq Keys(collected)
        /\ Finished =>
             \A k \in 1..Len(collected) :
                 k <= MAX_ITEMS => k <= Len(unique) /\ unique[k] = collected[k]

\* the last round parsed a snapshot without any item (all evicted), and the
\* items of earlier rounds are in the output
C3_Witness ==
    /\ site \in HarvestSites
    /\ Finished
    /\ parses >= 1
    /\ parsed = 0
    /\ round_num >= 1
    /\ Len(unique) >= 2
    /\ extracted = Keys(unique)

\* ----------------------------------------------------------------------- C4
\* C4: finam -- a link that was rendered in some round of the loop appears in
\* the final output, even when the page evicted it later.
C4_FinamKeepsRendered ==
    site = "finam" /\ Finished => rendered \subseteq Keys(unique)

\* ----------------------------------------------------------------------- C5
\* C5: the merge is idempotent: merging a chunk a second time right after
\* merging it adds no item and leaves the list and the seen-set unchanged.
C5_MergeIdempotent ==
    site \in HarvestSites \cup {"akm"} =>
        \A chunk \in Chunks :
            LET once == Merge(collected, seen, chunk)
                twice == Merge(once.collected, once.seen, chunk)
            IN  /\ twice.added = 0
                /\ twice.collected = once.collected
                /\ twice.seen = once.seen

\* vedomosti_business merged twice in one round and the second merge of a
\* full snapshot admitted nothing
C5_Witness ==
    /\ site = "vedomosti_business"
    /\ pc = "target"
    /\ parses = 2
    /\ parsed = MaxChunk
    /\ added = 0
    /\ Len(collected) >= MaxChunk

\* ----------------------------------------------------------------------- C6
\* max_clicks of the single-page harvesters, max_rounds of finam
RoundCap == IF site = "finam" THEN MaxRounds ELSE MaxClicks

\* the steps left inside a round, by position
PcRank ==
    CASE pc = "start" -> 7
      [] pc = "locate" -> 6
      [] pc \in {"settle", "count"} -> 5
      [] pc \in {"parse", "recount"} -> 4
      [] pc \in {"reparse", "height"} -> 3
      [] pc = "target" -> 2
      [] pc = "returned" -> 1
      [] OTHER -> 0

\* rounds and steps the loop can still take
Measure == (RoundCap - round_num) * 8 + PcRank

\* C6: every harvest loop terminates within its round cap (max_clicks for the
\* single-page harvesters, max_rounds for finam), whatever the trigger and
\* the parses do: no more than cap rounds are begun, and every step of the
\* program strictly decreases a non-negative measure.
C6_LoopTerminates ==
    /\ [](site \in HarvestSites \cup {"finam"} =>
            rounds_started <= RoundCap /\ round_num < RoundCap /\ Measure >= 0)
    /\ [][(site \in HarvestSites \cup {"finam"}) => (Measure' < Measure)]_vars

\* the trigger was activated in every round, no round found a new item after
\* the first, and the loop ended at the round cap
C6_Witness ==
    /\ site \in HarvestSites
    /\ pc = "returned"
    /\ stop = "cap"
    /\ all_clicked
    /\ rounds_started = MaxClicks
    /\ Len(collected) = 1
    /\ parsed > 0

\* ----------------------------------------------------------------------- C7
\* C7: when the trigger is found in rounds 1 and 2, which parse [A,B] and
\* [B,C], and is not found afterwards (nothing parsed, nothing raised), the
\* loop returns exactly [A,B,C], stops in round 5 on the no-trigger exit and
\* not at the round cap.
C7_ScenarioABC ==
    site \in HarvestSites /\ pc \in {"returned", "done"} /\ stop # "exception" /\ scen >= 0 =>
        /\ collected = <<ItemOf(1), ItemOf(2), ItemOf(3)>>
        /\ round_num + 1 = 5
        /\ rounds_started = 5
        /\ stop = "no_trigger"
        /\ pc = "done" => unique = collected

\* the scenario ran to its end in vedomosti_business
C7_Witness ==
    /\ site = "vedomosti_business"
    /\ pc = "done"
    /\ scen >= 0
    /\ stop = "no_trigger"

\* ----------------------------------------------------------------------- C8
\* C8: vedomosti -- at the end of the locate phase of every round
\* no_click_count is the number of consecutive rounds, up to the current one,
\* in which no trigger was activated; the loop stops on the no-trigger exit
\* exactly in the round where that number reaches 3.
C8_NoClickCountIsMissRun ==
    site \in VedomostiSites /\ pc \in {"parse", "reparse", "target", "returned", "locate"} =>
        /\ no_click_count = miss_run
        /\ stop = "no_trigger" <=> miss_run >= NoTriggerLimit
        /\ miss_run <= NoTriggerLimit

\* a no-trigger stop after a run of misses was interrupted by a click
C8_Witness ==
    /\ site \in VedomostiSites
    /\ pc = "returned"
    /\ stop = "no_trigger"
    /\ ~all_clicked
    /\ rounds_started > NoTriggerLimit + 1
    /\ collected = <<>>

\* ----------------------------------------------------------------------- C9
\* C9: interfax stops on the no-trigger exit only when the trigger was not
\* located in each of the 3 most recent consecutive rounds.
C9_InterfaxThreeConsecutive ==
    site = "interfax" /\ stop = "no_trigger" => miss_run >= NoTriggerLimit

\* ---------------------------------------------------------------------- C10
\* C10: interfax and vedomosti -- the list handed to the file writer is never
\* longer than MAX_ITEMS and equals the first min(len, MAX_ITEMS) entries of
\* the accumulator.
C10_OutputIsTruncatedPrefix ==
    site \in HarvestSites /\ Finished =>
        /\ Len(unique) <= MAX_ITEMS
        /\ unique = SubSeq(collected, 1, Min(Len(collected), MAX_ITEMS))
        /\ csv.written => csv.rows = unique

\* the loop returned more than MAX_ITEMS items and main cut the list
C10_Witness ==
    /\ site \in HarvestSites
    /\ Finished
    /\ Len(collected) > MAX_ITEMS
    /\ Len(unique) = MAX_ITEMS
    /\ csv.written

\* ---------------------------------------------------------------------- C11
\* C11: finam -- the written output never holds more items than the target
\* count: the extracted sequence is truncated to the target count.
C11_FinamOutputWithinTarget ==
    site = "finam" /\ Finished => Len(unique) <= FinamTarget /\ Len(csv.rows) <= FinamTarget

\* ---------------------------------------------------------------------- C12
\* C12: vedomosti_economics -- a round whose parse step did not raise ends
\* the loop on the stall heuristic if and only if, after the merge,
\* len(collected) is above the floor and both the number of rendered time
\* elements and the number of items parsed this round are below 0.3 of it.
C12_EconomicsStallIff ==
    site = "vedomosti_economics" /\ pc \in {"target", "returned", "done"}
        /\ parses >= 1 /\ stop # "exception" =>
        (stop = "stall" <=>
            /\ Len(collected) > StallFloor
            /\ 10 * time_count < 3 * Len(collected)
            /\ 10 * parsed < 3 * Len(collected))

\* the stall exit taken in a round that still admitted an item
C12_Witness ==
    /\ site = "vedomosti_economics"
    /\ pc = "returned"
    /\ stop = "stall"
    /\ added = 1
    /\ time_count = 1

\* ---------------------------------------------------------------------- C13
\* C13: vedomosti_business -- the loop never stops on a page-exhausted or
\* page-reset judgement (a break inside the parse step) while the accumulator
\* holds no more items than the floor.
C13_BusinessBreaksAboveFloor ==
    site = "vedomosti_business" /\ stop \in {"stall", "reset", "exhausted"} =>
        Len(collected) > StallFloor

\* ---------------------------------------------------------------------- C14
\* C14: vedomosti_business -- a round parses the snapshot a second time only
\* when the trigger was activated and the first merge of the round admitted
\* nothing; it does so at most once (at most two extractor runs per round);
\* and the second parse is merged through the same seen-set, so the list
\* holds no duplicate key after it.
C14_BusinessRetryOnce ==
    site = "vedomosti_business" =>
        /\ parses <= 2
        /\ pc = "reparse" => load_more_clicked /\ added = 0 /\ parses = 1
        /\ parses = 2 =>
             /\ load_more_clicked
             /\ pc \in {"target", "returned", "done", "locate"}
             /\ Cardinality(Keys(collected)) = Len(collected)
             /\ added <= parsed

\* a second parse of the round that found new items next to known ones
C14_Witness ==
    /\ site = "vedomosti_business"
    /\ pc = "target"
    /\ parses = 2
    /\ added = 1
    /\ parsed = MaxChunk
    /\ Len(collected) >= 2

\* ---------------------------------------------------------------------- C15
\* C15: interfax and vedomosti_economics -- a round in which the trigger was
\* activated and the merge admitted no new item parses and merges a fresh
\* snapshot a second time before the round ends.
C15_RetryInInterfaxAndEconomics ==
    site \in {"interfax", "vedomosti_economics"} /\ pc = "target"
        /\ load_more_clicked /\ parses >= 1 /\ added = 0 =>
        parses = 2

\* ---------------------------------------------------------------------- C16
\* C16: vedomosti -- the cascade stops at the first strategy that succeeds:
\* once the class-selector strategy has activated the trigger in a round, no
\* later strategy is attempted and the trigger is activated exactly once.
C16_VedomostiCascadeStopsAtFirst ==
    site \in VedomostiSites /\ pc = "settle"
        /\ activated # <<>> /\ activated[1].by = "class" =>
        Len(activated) = 1

\* ---------------------------------------------------------------------- C17
\* C17: in every locator cascade (finam, interfax, both vedomosti) an element
\* is activated only if it is both displayed and enabled when it is accepted,
\* whichever strategy found it.
C17_ActivatedIsDisplayedAndEnabled ==
    site \in HarvestSites \cup {"finam"} =>
        \A k \in 1..Len(activated) : activated[k].enabled

\* ---------------------------------------------------------------------- C18
\* C18: interfax and vedomosti -- an exception raised in a round's parse step
\* (a step out of the parse position without an extractor result) never ends
\* the loop: the accumulator and the seen-set are left as they were, no exit
\* is taken, and the loop goes on to the target check of the same round.
C18_ParseExceptionIsCaught ==
    [][(site \in HarvestSites /\ pc \in {"parse", "reparse"} /\ parses' = parses) =>
          /\ pc' = "target"
          /\ collected' = collected
          /\ seen' = seen
          /\ stop' = stop
          /\ round_num' = round_num
          /\ quit_calls' = quit_calls]_vars

\* a later round's parse raised (the round reached the target check without
\* an extractor run) and the items of the earlier rounds are still there
C18_Witness ==
    /\ site \in HarvestSites
    /\ pc = "target"
    /\ parses = 0
    /\ round_num >= 1
    /\ Len(collected) >= 2
    /\ stop = "none"

\* ---------------------------------------------------------------------- C19
\* C19: an unexpected exception raised anywhere in a round of a harvest loop,
\* the scroll and trigger-locating phase included, is caught by the round:
\* the loop is left only by one of its own exits, and the items accumulated
\* so far are returned and written.
C19_RoundExceptionIsCaught ==
    site \in HarvestSites /\ pc = "done" /\ rounds_started >= 1 =>
        /\ stop # "exception"
        /\ unique = Truncate(collected)
        /\ collected # <<>> => csv.written

\* ---------------------------------------------------------------------- C20
\* C20: in every browser-driven harvester (finam, interfax, both vedomosti)
\* the session is released exactly once on every exit path of main: normal
\* completion, the early return on an empty result, and an exception raised
\* by navigation, the harvest loop or the file writer.  No release happens
\* before main ends.
C20_SessionReleasedOnce ==
    site \in HarvestSites \cup {"finam"} =>
        /\ pc = "done" => quit_calls = 1
        /\ pc # "done" => quit_calls = 0

\* main ended by an exception of the harvest loop, after items were collected
C20_Witness ==
    /\ site \in HarvestSites
    /\ pc = "done"
    /\ stop = "exception"
    /\ quit_calls = 1
    /\ unique = <<>>
    /\ Len(collected) >= 2

\* ---------------------------------------------------------------------- C21
\* C21: when the final accumulated result is empty, none of the five
\* programs creates, opens or modifies the output file: a file of the same
\* name left by an earlier run keeps its content.
C21_EmptyResultWritesNothing ==
    pc = "done" /\ unique = <<>> => csv = PriorFile /\ ~csv.written

\* a harvest that ran all its rounds and collected nothing
C21_Witness ==
    /\ site \in HarvestSites
    /\ pc = "done"
    /\ stop = "cap"
    /\ collected = <<>>
    /\ unique = <<>>
    /\ csv = PriorFile

\* ---------------------------------------------------------------------- C22
\* pages and steps the akm loop can still take
AkmMeasure ==
    (MaxPages + 1 - page_num) * 4
        + (CASE pc = "start" -> 3 [] pc = "fetch" -> 2 [] pc = "returned" -> 1 [] OTHER -> 0)

\* C22: the akm pagination loop fetches at most max_pages pages and stops at
\* the first of: a failed request, an empty extraction, no next-page link, or
\* the page cap; it terminates for every link structure, links back to a
\* fetched page included: every step decreases a non-negative measure.
C22_AkmTerminates ==
    /\ [](site = "akm" =>
            /\ rounds_started <= MaxPages
            /\ page_num <= MaxPages + 1
            /\ AkmMeasure >= 0
            /\ pc = "fetch" => stop = "none" /\ current_url # 0 /\ page_num = rounds_started + 1
            /\ stop = "cap" => page_num = MaxPages + 1 /\ rounds_started = MaxPages
            /\ stop = "no_next" => page_num = rounds_started
            /\ stop \in {"request_failed", "empty_page"} => page_num = rounds_started)
    /\ [][(site = "akm") => (AkmMeasure' < AkmMeasure)]_vars

\* every page linked back to the start page and yielded the same single item,
\* and the loop ended at the page cap
C22_Witness ==
    /\ site = "akm"
    /\ pc = "returned"
    /\ stop = "cap"
    /\ current_url = START_URL
    /\ Len(collected) = 1
    /\ rounds_started = MaxPages

NoRepeatedKey(list) == \A i, j \in 1..Len(list) : i # j => Key(list[i]) # Key(list[j])

VedomostiFns == {"vedomosti_business", "vedomosti_economics"}

\* C23: whatever the page, the extractors of vedomosti business and
\* economics return no two items with the same (date, title) key and no
\* title shorter than 2 characters; the direct and the inverse pass share
\* one set of seen keys, so an article both passes match is returned once.
C23_VedomostiUniqueKeysAndTitles ==
    ex_pc = "return" /\ ex_fn \in VedomostiFns =>
        /\ NoRepeatedKey(ex_out)
        /\ \A i \in 1..Len(ex_out) : Len(ex_out[i].title) >= 2

\* an article matched by both passes next to a link whose title unescapes
\* to one character
C23_Witness ==
    /\ ex_pc = "return"
    /\ ex_fn = "vedomosti_business"
    /\ Len(ex_in) = 2
    /\ ex_in[1].times # <<>>
    /\ DateIso(ex_in[1].times[1]) = "2026-02-05"
    /\ ex_in[1].links = <<[href |-> "/business/a1", text |-> <<"Ab">>, title |-> ""]>>
    /\ ex_in[2].times = ex_in[1].times
    /\ ex_in[2].links = <<[href |-> "/business/a5", text |-> <<"&amp;">>, title |-> ""]>>
    /\ ex_out = <<[date |-> "2026-02-05", title |-> "Ab"]>>

Blank(str) == \A k \in 1..Len(str) : Char(str, k) = " "

TwoDigits == {a \o b : a, b \in Digits}

\* str is blanks, then DD.MM.YYYY starting at position i, then blanks
DottedAt(str, i) ==
    /\ Len(str) >= i + 9
    /\ Blank(SubSeq(str, 1, i - 1))
    /\ Blank(SubSeq(str, i + 10, Len(str)))
    /\ SubSeq(str, i, i + 1) \in TwoDigits
    /\ Char(str, i + 2) = "."
    /\ SubSeq(str, i + 3, i + 4) \in TwoDigits
    /\ Char(str, i + 5) = "."
    /\ SubSeq(str, i + 6, i + 7) \in TwoDigits
    /\ SubSeq(str, i + 8, i + 9) \in TwoDigits

IsoSample == "2026-02-05T12:18:00"

\* C29: dot_date_to_iso rewrites an argument that is DD.MM.YYYY after
\* trimming to YYYY-MM-DD (05.02.2026 gives 2026-02-05) and returns every
\* other argument exactly as it was; the vedomosti extractors cut the
\* date-time 2026-02-05T12:18:00 to 2026-02-05 and the interfax extractor
\* cuts it to "2026-02-05 12:18".
C29_DateNormalisation ==
    ex_pc = "return" =>
        /\ ex_fn = "dot_date_to_iso" =>
            /\ \A i \in 1..Len(ex_in) :
                 DottedAt(ex_in, i) =>
                     ex_out = SubSeq(ex_in, i + 6, i + 9) \o "-" \o SubSeq(ex_in, i + 3, i + 4)
                                \o "-" \o SubSeq(ex_in, i, i + 1)
            /\ (~\E i \in 1..Len(ex_in) : DottedAt(ex_in, i)) => ex_out = ex_in
            /\ ex_in = "05.02.2026" => ex_out = "2026-02-05"
            /\ ex_in = "not a date" => ex_out = "not a date"
        /\ ex_fn \in VedomostiFns /\ (\A k \in 1..Len(TimesOf(ex_in)) : TimesOf(ex_in)[k].datetime = IsoSample) =>
            \A k \in 1..Len(ex_out) : ex_out[k].date = "2026-02-05"
        /\ ex_fn = "interfax" /\ (\A i \in 1..Len(ex_in) : \A j \in 1..Len(ex_in[i]) : ex_in[i][j].datetime = IsoSample) =>
            \A k \in 1..Len(ex_out) : ex_out[k].date = "2026-02-05 12:18"

\* a dotted date with blanks around it was rewritten
C29_Witness ==
    ex_pc = "return" /\ ex_fn = "dot_date_to_iso" /\ ex_in = " 05.02.2026  " /\ ex_out = "2026-02-05"

C29_WitnessUnchanged ==
    ex_pc = "return" /\ ex_fn = "dot_date_to_iso" /\ ex_in = " 05.02.20261" /\ ex_out = ex_in

C29_WitnessVedomosti ==
    /\ ex_pc = "return" /\ ex_fn = "vedomosti_economics" /\ Len(ex_out) = 2
    /\ \A k \in 1..Len(TimesOf(ex_in)) : TimesOf(ex_in)[k].datetime = IsoSample

C29_WitnessInterfax ==
    /\ ex_pc = "return" /\ ex_fn = "interfax" /\ Len(ex_out) = 2
    /\ \A i \in 1..Len(ex_in) : \A j \in 1..Len(ex_in[i]) : ex_in[i][j].datetime = IsoSample

\* C24: whatever the page, the extractors of interfax, akm and finam return
\* no two items with the same (date, title) key, also when one article is
\* rendered in two blocks or two URLs carry the same date and title.
C24_OtherExtractorsUniqueKeys ==
    ex_pc = "return" /\ ex_fn \in {"interfax", "akm", "finam"} => NoRepeatedKey(ex_out)

\* C25: every item the finam extractor returns has a title of at least 5
\* characters, whichever fallback the title came from (parent text, title
\* attribute, URL path segment).
C25_FinamTitlesAtLeastFive ==
    ex_pc = "return" /\ ex_fn = "finam" =>
        \A i \in 1..Len(ex_out) : Len(ex_out[i].title) >= 5

\* C26: in the finam extractor, when a URL has a kept title of length k and
\* a later qualifying text of length t arrives, the kept title becomes that
\* text if and only if t > k and (5*t >= 6*k or k < 10), and stays as it was
\* otherwise.
C26_FinamReplacementRule ==
    ex_pc = "return" /\ ex_fn = "finam" =>
        \A n \in 1..Len(ex_in) :
            LET a == ex_in[n]
                before == FinamArticles(SubSeq(ex_in, 1, n - 1))
                after == FinamArticles(SubSeq(ex_in, 1, n))
            IN  Qualifies(a) =>
                    \A i \in 1..Len(before) :
                        before[i].url = urljoin(a.href) =>
                            LET k == Len(before[i].title)
                                t == Len(AnchorText(a))
                            IN  after[i].title =
                                    IF t > k /\ (5 * t >= 6 * k \/ k < 10)
                                    THEN AnchorText(a)
                                    ELSE before[i].title

\* C27: when the finam extractor has processed all links, the title kept
\* for a URL is a longest one of the qualifying texts seen for that URL, in
\* whatever order they occurred.
C27_FinamKeepsLongest ==
    ex_pc = "return" /\ ex_fn = "finam" =>
        LET arts == FinamArticles(ex_in)
        IN  \A i \in 1..Len(arts) : \A n \in 1..Len(ex_in) :
                Qualifies(ex_in[n]) /\ urljoin(ex_in[n].href) = arts[i].url =>
                    Len(AnchorText(ex_in[n])) <= Len(ex_out[i].title)

DateTimeAt(url, k) ==
    SubSeq(url, k + 1, k + 4) \o "-" \o SubSeq(url, k + 5, k + 6) \o "-" \o SubSeq(url, k + 7, k + 8)
        \o " " \o SubSeq(url, k + 10, k + 11) \o ":" \o SubSeq(url, k + 12, k + 13)

HasToken(url) == \E k \in 1..Len(url) : TokenAt(url, k)

\* C28: for a URL that contains a hyphen, 8 digits, a hyphen and 4 digits
\* followed by "/" or by the end of the URL, the finam date derivation gives
\* "YYYY-MM-DD HH:MM" built from those digits (...-20240702-1943/ gives
\* "2024-07-02 19:43"); for a URL without such a token it gives the empty
\* string, and the extractor returns the item with the empty date.
C28_FinamDateFromUrl ==
    ex_pc = "return" =>
        /\ ex_fn = "parse_datetime_from_url" =>
            /\ HasToken(ex_in) =>
                 \E k \in 1..Len(ex_in) : TokenAt(ex_in, k) /\ ex_out = DateTimeAt(ex_in, k)
            /\ ~HasToken(ex_in) => ex_out = ""
            /\ ex_in = "https://www.finam.ru/publications/item/ab-20240702-1943/" =>
                 ex_out = "2024-07-02 19:43"
        /\ ex_fn = "finam" =>
            \A n \in 1..Len(ex_in) :
                Qualifies(ex_in[n]) =>
                    LET url == urljoin(ex_in[n].href)
                    IN  \E i \in 1..Len(ex_out) :
                            IF HasToken(url)
                            THEN \E k \in 1..Len(url) : TokenAt(url, k) /\ ex_out[i].date = DateTimeAt(url, k)
                            ELSE ex_out[i].date = ""

\* a page with a dated URL and an undated one: both items are returned
C28_Witness ==
    /\ ex_pc = "return"
    /\ ex_fn = "finam"
    /\ Len(ex_in) = 2
    /\ ex_in[1].href = "/publications/item/ab-20240702-1943/"
    /\ ex_in[2].href = "/publications/item/42/"
    /\ ex_out = <<[date |-> "2024-07-02 19:43", title |-> "Ten chars."],
                  [date |-> "", title |-> "Twelve chars"]>>

C28_WitnessParse ==
    /\ ex_pc = "return"
    /\ ex_fn = "parse_datetime_from_url"
    /\ ex_in = "https://www.finam.ru/x-20231231-2359/item/ab-20240702-1943/"
    /\ ex_out = "2023-12-31 23:59"

\* C30: in finam, interfax and both vedomosti extractors a link that has a
\* non-empty visible text and a non-empty title attribute gets the visible
\* text as its title.
C30_TextBeforeTitleAttribute ==
    ex_pc = "return" /\ Len(ex_in) = 1 /\ Len(ex_out) = 1 =>
        /\ ex_fn \in VedomostiFns /\ ex_in[1].links # <<>> =>
            LET a == ex_in[1].links[1]
            IN  get_text(a.text, " ") # "" /\ a.title # "" =>
                    ex_out[1].title = Strip(unescape(get_text(a.text, " ")))
        /\ ex_fn = "interfax" /\ Len(ex_in[1]) = 1 /\ ex_in[1][1].links # <<>> =>
            LET a == ex_in[1][1].links[1]
            IN  get_text(a.h3, " ") # "" /\ a.title # "" =>
                    ex_out[1].title = Strip(unescape(get_text(a.h3, " ")))
        /\ ex_fn = "finam" =>
            LET a == ex_in[1]
            IN  get_text(a.text, " ") # "" /\ a.title # "" =>
                    ex_out[1].title = get_text(a.text, " ")

\* the sections an extractor of vedomosti reads
SectionsOf(fn) == IF fn = "vedomosti_business" THEN BusinessSections ELSE EconomicsSections

\* C31: in the vedomosti extractors an article whose time element carries a
\* text that neither starts with YYYY-MM-DD nor is DD.MM.YYYY is still
\* returned, with that text unchanged as its date.
C31_UnrecognizedDateIsKept ==
    ex_pc = "return" /\ ex_fn \in VedomostiFns =>
        \A n \in 1..Len(ex_in) :
            LET card == ex_in[n]
            IN  card.times # <<>> /\ card.links # <<>> =>
                    LET date_text == DateText(card.times[1])
                        a == card.links[1]
                    IN  /\ date_text # ""
                        /\ ~IsoDatePrefix(date_text)
                        /\ ~DATE_DOT_PATTERN(date_text)
                        /\ \E sec \in SectionsOf(ex_fn) : Contains(a.href, sec)
                        /\ ~\E x \in BadMarks : Contains(a.href, x)
                        /\ TitleAccepted(LinkTitle(a))
                        => \E i \in 1..Len(ex_out) :
                               ex_out[i] = [date |-> date_text, title |-> LinkTitle(a)]

\* C32: interfax -- whenever the trigger was not located in 3 rounds in a
\* row, the loop has stopped by the end of the locate phase of the third of
\* them, whatever the parse steps of those rounds returned: no parse step and
\* no later step of the loop is reached with a run of 3 misses.
C32_InterfaxStopsOnThirdMiss ==
    site = "interfax" /\ pc \in {"parse", "target", "locate"} => miss_run < NoTriggerLimit

\* C36: finam -- when the scroll loop stopped on its target-reached
\* condition, the deduplicated list that main extracts and writes holds at
\* least target_count items.
C36_FinamTargetStopHasTargetItems ==
    site = "finam" /\ pc = "done" /\ stop = "target" =>
        Len(unique) >= FinamTarget /\ Len(csv.rows) >= FinamTarget

\* C35: akm -- when the request for page k fails, no further page is
\* requested and the failure leaves the accumulator as it was; the items
\* accumulated from pages 1..k-1 are exactly what is written to the output
\* file, and nothing is written when k = 1.
C35_AkmFailedRequestKeepsItems ==
    /\ [](site = "akm" /\ stop = "request_failed" =>
            /\ pc \in {"returned", "done"}
            /\ rounds_started = 1 => collected = <<>>
            /\ pc = "done" =>
                /\ unique = collected
                /\ collected # <<>> => csv.written /\ csv.rows = collected
                /\ collected = <<>> => csv = PriorFile)
    /\ [][site = "akm" /\ stop' = "request_failed" =>
            /\ collected' = collected
            /\ seen' = seen
            /\ (stop = "request_failed" => rounds_started' = rounds_started)]_vars

\* the request for the third page failed and the items of two pages were
\* written
C35_Witness ==
    /\ site = "akm"
    /\ pc = "done"
    /\ stop = "request_failed"
    /\ rounds_started = 3
    /\ Len(collected) >= 2
    /\ csv.written
    /\ csv.rows = collected

C35_WitnessFirstPage ==
    /\ site = "akm"
    /\ pc = "done"
    /\ stop = "request_failed"
    /\ rounds_started = 1
    /\ csv = PriorFile

\* C33: interfax and vedomosti, with a non-zero target -- the loop stops at
\* the end of the first round after which len(collected) >= target_count: no
\* round starts (no scroll, no trigger activation) while the accumulator
\* holds target_count items or more.
C33_NoRoundBeyondTarget ==
    /\ [](site \in HarvestSites /\ pc \in {"locate", "settle"} => Len(collected) < MAX_ITEMS)
    /\ [][(site \in HarvestSites /\ Len(collected) >= MAX_ITEMS) =>
            (/\ rounds_started' = rounds_started
             /\ (pc = "target" => pc' = "returned" /\ stop' = "target"))]_vars

\* a loop that ended on the target test of the round that reached the target
C33_Witness ==
    /\ site \in HarvestSites
    /\ pc = "returned"
    /\ stop = "target"
    /\ Len(collected) >= MAX_ITEMS
    /\ rounds_started >= 2

\* C37: interfax and finam -- the trigger is activated at most once per
\* round: a later strategy of the cascade is attempted only if no earlier
\* strategy of that round activated the trigger.
C37_OneActivationPerRound ==
    /\ \A r \in InterfaxCascade \cup FinamCascade :
         /\ Len(r.activated) <= 1
         /\ r.clicked <=> r.activated # <<>>
    /\ site \in {"interfax", "finam"} => Len(activated) <= 1

\* a round in which the earlier strategies found nothing and a later one
\* activated the trigger
C37_Witness ==
    /\ site = "interfax"
    /\ pc = "settle"
    /\ load_more_clicked
    /\ activated # <<>>
    /\ activated[1].by = "text"

C37_WitnessFinam ==
    /\ site = "finam"
    /\ pc = "count"
    /\ load_more_clicked
    /\ Len(activated) = 1
    /\ activated[1].by = "scan_link"

\* C34: interfax and vedomosti -- the parse-and-merge step runs in every
\* round whose locate phase ends without the no-trigger exit: a round where
\* the trigger was not found but the threshold is not reached goes on to
\* parse and merge the current snapshot, while the round that reaches the
\* threshold leaves the loop without parsing and contributes no item.
C34_ParseUnlessNoTriggerExit ==
    /\ [](site \in HarvestSites /\ pc = "returned" /\ stop = "no_trigger" =>
            parses = 0 /\ added = 0 /\ ~load_more_clicked)
    /\ [][(site \in HarvestSites /\ pc = "settle" /\ stop' # "exception") =>
            (IF stop' = "no_trigger"
             THEN pc' = "returned" /\ collected' = collected /\ seen' = seen
             ELSE pc' = "parse")]_vars
    /\ [][(site \in HarvestSites /\ pc = "parse") =>
            (\/ parses' = parses + 1 /\ Keys(collected') = seen'
             \/ pc' = "target" /\ collected' = collected /\ stop' = stop)]_vars

\* a round without a trigger, below the threshold, that parsed and merged
\* new items
C34_Witness ==
    /\ site \in VedomostiSites
    /\ pc = "target"
    /\ ~load_more_clicked
    /\ no_click_count = NoTriggerLimit - 1
    /\ parses = 1
    /\ added >= 1

C34_WitnessExit ==
    /\ site = "interfax"
    /\ pc = "returned"
    /\ stop = "no_trigger"
    /\ Len(collected) >= 2

====
